---- MODULE Spec2Model ----
(***************************************************************************)
(* A model of src/src/squashMigrations.js: the generator that turns the    *)
(* loaded Sequelize models into one squashed migration script.            *)
(*                                                                         *)
(* JavaScript values are represented as follows.                          *)
(*  - A string is a TLA+ string; the string functions the code uses       *)
(*    (split, includes, startsWith, replace, template concatenation) are  *)
(*    computed character by character.                                     *)
(*  - An object is a function from its own property names to their        *)
(*    values: the DOMAIN is what Object.entries and the spread go through, *)
(*    an own property that holds undefined is in it with the value        *)
(*    Undefined, and `delete` removes a name from it.                      *)
(*  - An object whose key order matters (rawAttributes, the models map,   *)
(*    the result of generateTableAttributes) is the sequence of its       *)
(*    Object.entries, keys distinct.                                       *)
(*  - A type descriptor (attribute.type) is given by what the code can    *)
(*    observe of it: whether it is a primitive string or a DataTypes      *)
(*    object, the text toString() yields, whether it is an instance of    *)
(*    DataTypes.ENUM, and its _length, _precision and _scale (0 when not  *)
(*    set, which JavaScript treats as falsy exactly like undefined).      *)
(*  - Any other property value is given by its language type (t; null is  *)
(*    a type of its own) and the text String(v) yields (v): the code tests *)
(*    its truthiness, its typeof and interpolates it into a template. An   *)
(*    array has its items besides.                                         *)
(*  - An attribute that is null is the value JSNull.                       *)
(***************************************************************************)
EXTENDS Integers, Sequences, FiniteSets, TLC

VARIABLES
    models,                  \* Object.entries(models) after loadModels
    pc,                      \* position inside generateMigration / the exit chain
    i,                       \* index of the next model of the create-table loop
    enumCreationStatements,  \* result of generateEnumTypes
    attributes,              \* result of the last generateTableAttributes call
    migrationStatements,     \* the create-table statements pushed so far
    hasErrors,               \* the degraded flag
    console,                 \* every console.log/warn/error line, in order
    output,                  \* the assembled script (up and down)
    file,                    \* what writeFileSync put at outputFilePath
    exitCode                 \* exit status of the process, -1 while running

vars == <<models, pc, i, enumCreationStatements, attributes, migrationStatements,
          hasErrors, console, output, file, exitCode>>

----------------------------------------------------------------------------
(* Bounds *)

MaxModels == 2

----------------------------------------------------------------------------
(* String functions *)

Min(S) == CHOOSE x \in S : \A y \in S : x <= y

\* String.prototype.indexOf for a one-character needle, 0 when absent.
IndexOfChar(s, c) ==
    LET hits == {k \in 1..Len(s) : SubSeq(s, k, k) = c}
    IN  IF hits = {} THEN 0 ELSE Min(hits)

\* s.split('(')[0]
SplitHead(s) ==
    LET k == IndexOfChar(s, "(")
    IN  IF k = 0 THEN s ELSE SubSeq(s, 1, k - 1)

\* s.includes(sub)
Includes(s, sub) ==
    \E k \in 1..(Len(s) - Len(sub) + 1) : SubSeq(s, k, k + Len(sub) - 1) = sub

\* s.startsWith(prefix)
StartsWith(s, prefix) ==
    /\ Len(s) >= Len(prefix)
    /\ SubSeq(s, 1, Len(prefix)) = prefix

\* s.replace(/"/g, '')
RECURSIVE StripQuotes(_)
StripQuotes(s) ==
    IF Len(s) = 0 THEN ""
    ELSE LET c == SubSeq(s, 1, 1)
             rest == StripQuotes(SubSeq(s, 2, Len(s)))
         IN  IF c = "\"" THEN rest ELSE c \o rest

\* array.join(sep) of an array of strings
RECURSIVE Join(_, _)
Join(arr, sep) ==
    IF Len(arr) = 0 THEN ""
    ELSE IF Len(arr) = 1 THEN arr[1]
    ELSE arr[1] \o sep \o Join(Tail(arr), sep)

\* array.reverse()
Reverse(arr) == [k \in 1..Len(arr) |-> arr[Len(arr) + 1 - k]]

\* Array.from(new Set(arr)): first occurrences, in insertion order
RECURSIVE Distinct(_)
Distinct(arr) ==
    IF Len(arr) = 0 THEN <<>>
    ELSE LET init == Distinct(SubSeq(arr, 1, Len(arr) - 1))
             last == arr[Len(arr)]
         IN  IF \E k \in 1..Len(init) : init[k] = last THEN init
             ELSE Append(init, last)

----------------------------------------------------------------------------
(* JavaScript objects *)

\* The value undefined.
Undefined == [t |-> "undefined", v |-> "undefined"]

\* p is an own property of obj.
Own(obj, p) == p \in DOMAIN obj

\* obj.p !== undefined: p is an own property and does not hold undefined.
Has(obj, p) == Own(obj, p) /\ obj[p] # Undefined
Delete(obj, p) == [k \in (DOMAIN obj) \ {p} |-> obj[k]]
Set(obj, p, v) == [k \in (DOMAIN obj) \cup {p} |-> IF k = p THEN v ELSE obj[k]]

\* null as an attribute. No object has this image: the image of a property
\* value is a record of t and v, so the object { null: ... } differs from it.
JSNull == [null |-> [none |-> TRUE]]

\* !value (line 132), value === null (line 101): only null itself
IsNull(v) == v = JSNull

\* Property values: type and String(v).
Str(s) == [t |-> "string", v |-> s]
Bool(b) == [t |-> "boolean", v |-> IF b THEN "true" ELSE "false"]
Num(n) == [t |-> "number", v |-> ToString(n)]
BigInt(n) == [t |-> "bigint", v |-> ToString(n)]
Sym(description) == [t |-> "symbol", v |-> "Symbol(" \o description \o ")"]
ObjText(text) == [t |-> "object", v |-> text]
Arr(items) == [t |-> "object", v |-> Join(items, ","), items |-> items]
Obj == ObjText("[object Object]")
Null == [t |-> "null", v |-> "null"]
Fn(name) == [t |-> "function", v |-> "function " \o name \o "() { [native code] }"]

\* typeof x
TypeOf(x) == IF x.t = "null" THEN "object" ELSE x.t

\* ToBoolean of a property value.
TruthyValue(x) ==
    CASE x.t = "string" -> x.v # ""
      [] x.t = "boolean" -> x.v = "true"
      [] x.t = "number" -> x.v \notin {"0", "NaN"}
      [] x.t = "bigint" -> x.v # "0"
      [] x.t \in {"null", "undefined"} -> FALSE
      [] OTHER -> TRUE

\* `${x}`: a template literal converts with ToString, which throws a
\* TypeError for a symbol.
Printable(x) == x.t # "symbol"

\* if (obj.p): the property is there and its value is truthy.
Truthy(obj, p) == Has(obj, p) /\ TruthyValue(obj[p])

\* A primitive string used as a type.
StringType(s) ==
    [kind |-> "string", str |-> s, isENUM |-> FALSE,
     _length |-> 0, _precision |-> 0, _scale |-> 0]

\* A DataTypes instance: sql is what its toString() returns.
DataType(sql, enum, length, precision, scale) ==
    [kind |-> "object", str |-> sql, isENUM |-> enum,
     _length |-> length, _precision |-> precision, _scale |-> scale]

\* !type for a type that is not undefined: only the empty string is falsy.
Falsy(type) == type.kind = "string" /\ type.str = ""

----------------------------------------------------------------------------
(* Type Mapper *)

typeMapping ==
    [DOUBLE |-> "DOUBLE", REAL |-> "REAL", FLOAT |-> "FLOAT", DECIMAL |-> "DECIMAL",
     INTEGER |-> "INTEGER", BIGINT |-> "BIGINT", SMALLINT |-> "SMALLINT",
     ENUM |-> "ENUM", STRING |-> "STRING", VARCHAR |-> "STRING", TEXT |-> "TEXT",
     DATE |-> "DATE", DATETIME |-> "DATE", BOOLEAN |-> "BOOLEAN", UUID |-> "UUID",
     JSON |-> "JSON", JSONB |-> "JSONB"]
    @@ ("DOUBLE PRECISION" :> "DOUBLE")

\* typeMapping is a plain object: a lookup that misses its own keys falls
\* through to the members of Object.prototype, all of them truthy.
ObjectPrototype ==
    [name \in {"toString", "toLocaleString", "valueOf",
               "hasOwnProperty", "isPrototypeOf", "propertyIsEnumerable",
               "__defineGetter__", "__defineSetter__", "__lookupGetter__",
               "__lookupSetter__"} |-> Fn(name)]
    @@ ("constructor" :> Fn("Object"))
    @@ ("__proto__" :> Obj)

\* getSequelizeType for a type that is not undefined: the value returned, a
\* string or an inherited member. toString of the supported descriptors does
\* not throw, so the catch of lines 89-92 has no case here.
getSequelizeType(sequelizeType) ==
    IF Falsy(sequelizeType) THEN Str("STRING")
    ELSE LET typeString == sequelizeType.str
             baseType == SplitHead(typeString)
         IN  IF baseType \in DOMAIN typeMapping THEN Str(typeMapping[baseType])
             ELSE IF baseType \in DOMAIN ObjectPrototype THEN ObjectPrototype[baseType]
             ELSE Str(typeString)

----------------------------------------------------------------------------
(* Attribute Normalizer *)

Line(level, text) == [level |-> level, text |-> text]

\* `${n}` for a number or, when it is falsy, the alternative
OrElse(n, alt) == IF n = 0 THEN alt ELSE n

\* The switch of lines 153-193. Its subject is attributeDefinition.type, the
\* descriptor itself, and a case label is a string literal: under strict
\* equality a label matches only a descriptor that is that primitive string.
\* value.type._length, _precision and _scale are read from the descriptor.
SwitchType(type, sequelizeType, tableName, key) ==
    LET subject == IF type.kind = "string" THEN type.str ELSE "[object]"
    IN  CASE subject = "BOOLEAN" -> Str("BOOLEAN")
          [] subject = "STRING" ->
                Str("STRING" \o (IF type._length # 0
                                 THEN "(" \o ToString(type._length) \o ")" ELSE ""))
          [] subject = "INTEGER" -> Str("INTEGER")
          [] subject = "BIGINT" -> Str("BIGINT")
          [] subject = "DECIMAL" ->
                Str("DECIMAL(" \o ToString(OrElse(type._precision, 10)) \o ","
                               \o ToString(OrElse(type._scale, 0)) \o ")")
          [] subject \in {"DOUBLE", "FLOAT"} -> sequelizeType
          [] subject \in {"DATE", "DATETIME"} -> Str("TIMESTAMP WITH TIME ZONE")
          [] subject = "ENUM" -> Str("\"enum_" \o tableName \o "_" \o key \o "\"")
          [] subject = "JSON" -> Str("JSON")
          [] subject = "JSONB" -> Str("JSONB")
          [] OTHER -> sequelizeType

\* Lines 145-194: the value attributeDefinition.type gets for a present type.
ResolveType(type, tableName, key) ==
    IF Falsy(type) THEN Str("STRING")
    ELSE SwitchType(type, getSequelizeType(type), tableName, key)

\* Lines 196-201.
StripReferences(def) ==
    IF Truthy(def, "references")
    THEN Delete(Delete(Delete(def, "references"), "onDelete"), "onUpdate")
    ELSE def

\* Lines 203-206.
DefaultAllowNull(def) ==
    IF Has(def, "allowNull") THEN def ELSE Set(def, "allowNull", Bool(TRUE))

\* Lines 208-210.
CleanUp(def) == Delete(Delete(def, "fieldName"), "field")

\* value.type is neither undefined nor null: toString can be called on it.
TypeGiven(value) == Has(value, "type") /\ value.type # Null

\* One iteration of the loop of generateTableAttributes (lines 130-228):
\* whether result[key] is assigned, the definition assigned, the lines logged.
NormalizeField(key, value, tableName) ==
    IF IsNull(value) THEN
        [kept |-> FALSE, def |-> JSNull,
         log |-> <<Line("warn", "WARNING: ATTRIBUTE '" \o key \o "' IN TABLE '"
                                 \o tableName \o "' IS UNDEFINED OR NULL")>>]
    ELSE IF ~TypeGiven(value) THEN
        \* value.type.toString() at line 140 throws a TypeError, caught at 220
        [kept |-> FALSE, def |-> JSNull,
         log |-> <<Line("error", "Error processing attribute '" \o key
                                  \o "' in table '" \o tableName \o "':")>>]
    ELSE IF value.type.str = "VIRTUAL" THEN
        [kept |-> FALSE, def |-> JSNull, log |-> <<>>]
    ELSE
        LET resolved == ResolveType(value.type, tableName, key)
            typed == Set(value, "type", StringType(resolved.v))
            def == CleanUp(DefaultAllowNull(StripReferences(typed)))
            typeLog == IF Falsy(value.type)
                       THEN <<Line("warn", "Warning: Type for attribute '" \o key
                                   \o "' in table '" \o tableName \o "' is undefined")>>
                       ELSE <<>>
        IN  IF resolved.t # "string"
            THEN \* type.includes is undefined: line 212 throws, caught at 220
                 [kept |-> FALSE, def |-> JSNull,
                  log |-> typeLog \o
                          <<Line("error", "Error processing attribute '" \o key
                                 \o "' in table '" \o tableName \o "':")>>]
            ELSE IF Includes(resolved.v, "SEQUELIZE")
            THEN [kept |-> FALSE, def |-> JSNull,
                  log |-> typeLog \o
                          <<Line("warn", "WARNING: UNHANDLED SEQUELIZE TYPE FOR FIELD \""
                                 \o key \o "\": " \o value.type.str)>>]
            ELSE [kept |-> TRUE, def |-> def, log |-> typeLog]

\* generateTableAttributes: result is Object.entries of the returned map, log the
\* lines printed on the way. rawAttributes is Object.entries(attributes).
RECURSIVE generateTableAttributes(_, _)
generateTableAttributes(rawAttributes, tableName) ==
    IF Len(rawAttributes) = 0 THEN [result |-> <<>>, log |-> <<>>]
    ELSE LET n == Len(rawAttributes)
             before == generateTableAttributes(SubSeq(rawAttributes, 1, n - 1), tableName)
             entry == rawAttributes[n]
             field == NormalizeField(entry.key, entry.value, tableName)
         IN  [result |-> IF field.kept
                         THEN Append(before.result, [key |-> entry.key, value |-> field.def])
                         ELSE before.result,
              log |-> before.log \o field.log]

----------------------------------------------------------------------------
(* Enum Registry *)

EnumTypeName(tableName, fieldName) == "enum_" \o tableName \o "_" \o fieldName

\* `'${value}'` of each value, joined with ', ' (lines 103-105)
EnumValues(values) ==
    Join([k \in 1..Len(values) |-> "'" \o values[k] \o "'"], ", ")

\* attribute.type instanceof DataTypes.ENUM; undefined and null are no instance
IsEnumAttribute(attribute) == TypeGiven(attribute) /\ attribute.type.isENUM

\* attribute.values.map can be called: values is an array.
HasValues(attribute) == Has(attribute, "values") /\ Own(attribute.values, "items")

\* The enum fields of one model in field order, as the loops of lines 100-105
\* and 348-350 meet them. threw: Object.entries(undefined), null.type or
\* undefined.map raised a TypeError; withValues says whether attribute.values
\* is read (generateEnumTypes reads it, the scan of the down direction does not).
RECURSIVE ScanFields(_, _, _)
ScanFields(rawAttributes, tableName, withValues) ==
    IF Len(rawAttributes) = 0 THEN [threw |-> FALSE, found |-> <<>>]
    ELSE LET n == Len(rawAttributes)
             before == ScanFields(SubSeq(rawAttributes, 1, n - 1), tableName, withValues)
             entry == rawAttributes[n]
         IN  IF before.threw THEN before
             ELSE IF IsNull(entry.value) THEN [threw |-> TRUE, found |-> before.found]
             ELSE IF ~IsEnumAttribute(entry.value) THEN before
             ELSE IF withValues /\ ~HasValues(entry.value)
                  THEN [threw |-> TRUE, found |-> before.found]
             ELSE [threw |-> FALSE,
                   found |-> Append(before.found,
                       [name |-> EnumTypeName(tableName, entry.key),
                        values |-> IF withValues THEN EnumValues(entry.value.values.items)
                                   ELSE ""])]

\* The same over Object.values(models), in model order.
RECURSIVE ScanModels(_, _)
ScanModels(ms, withValues) ==
    IF Len(ms) = 0 THEN [threw |-> FALSE, found |-> <<>>]
    ELSE LET n == Len(ms)
             before == ScanModels(SubSeq(ms, 1, n - 1), withValues)
             model == ms[n]
         IN  IF before.threw THEN before
             ELSE IF ~Own(model, "rawAttributes")
                  THEN [threw |-> TRUE, found |-> before.found]
             ELSE LET here == ScanFields(model.rawAttributes, model.tableName, withValues)
                  IN  [threw |-> here.threw, found |-> before.found \o here.found]

\* FirstByName without the enumTypes.has test: every occurrence is pushed.
FirstByName_NoDedupe(found) == found

\* Lines 107-119: a statement is pushed only for a name not yet in enumTypes.
RECURSIVE FirstByName(_)
FirstByName(found) ==
    IF Len(found) = 0 THEN <<>>
    ELSE LET init == FirstByName(SubSeq(found, 1, Len(found) - 1))
             last == found[Len(found)]
         IN  IF \E k \in 1..Len(init) : init[k].name = last.name THEN init
             ELSE Append(init, last)

CreateTypeSql(e) == "CREATE TYPE \"" \o e.name \o "\" AS ENUM (" \o e.values \o ");"

\* generateEnumTypes(models) when it returns: enumCreationStatements.
generateEnumTypes(ms) ==
    LET firsts == FirstByName(ScanModels(ms, TRUE).found)
    IN  [k \in 1..Len(firsts) |->
            [name |-> firsts[k].name, values |-> firsts[k].values,
             sql |-> CreateTypeSql(firsts[k])]]

generateEnumTypesThrows(ms) == ScanModels(ms, TRUE).threw

----------------------------------------------------------------------------
(* Migration Emitter *)

\* `${typeof v === 'string' ? `'${v}'` : v}` (lines 284, 296, 308)
RenderValue(x) == IF TypeOf(x) = "string" THEN "'" \o x.v \o "'" ELSE x.v

\* Lines 265-271.
EmitDeletes(value) ==
    [k \in (DOMAIN value) \ {"references", "Model", "_autoGenerated",
                             "_modelAttribute", "values", "set", "get"} |-> value[k]]

\* Lines 272-312: the type expression of one column.
RenderType(typeDefinition) ==
    IF StartsWith(typeDefinition, "\"enum_")
    THEN "'" \o StripQuotes(typeDefinition) \o "'"
    ELSE IF typeDefinition = "TIMESTAMP WITH TIME ZONE" THEN "Sequelize.DATE"
    ELSE "Sequelize." \o typeDefinition

\* One column of a createTable call: its key, type expression and the
\* remaining properties rendered as key: value pairs.
RenderColumn(key, value) ==
    LET v == EmitDeletes(value)
    IN  [key |-> key,
         type |-> RenderType(v.type.str),
         props |-> [k \in (DOMAIN v) \ {"type"} |-> RenderValue(v[k])]]

\* The template of a column throws: one of the properties it prints is not
\* printable.
Unprintable(value) ==
    \E k \in (DOMAIN EmitDeletes(value)) \ {"type"} : ~Printable(value[k])

\* The first column the map of lines 264-314 throws at, 0 when it returns.
FirstUnprintable(attrs) ==
    LET bad == {k \in 1..Len(attrs) : Unprintable(attrs[k].value)}
    IN  IF bad = {} THEN 0 ELSE CHOOSE k \in bad : \A j \in bad : k <= j

\* attributes once the map went through its first n columns: the deletes of
\* lines 265-271 act on the objects attributes holds.
AfterDeletes(attrs, n) ==
    [k \in 1..Len(attrs) |->
        IF k <= n THEN [key |-> attrs[k].key, value |-> EmitDeletes(attrs[k].value)]
        ELSE attrs[k]]

\* Lines 260-316: the statement pushed for a model with attributes.
CreateTableStatement(tableName, attrs) ==
    [table |-> tableName,
     columns |-> [k \in 1..Len(attrs) |-> RenderColumn(attrs[k].key, attrs[k].value)]]

\* Line 254.
NoAttributes(attrs) == Len(attrs) = 0

\* DropTables over the models with attributes only.
DropTables_NonEmptyOnly(ms) ==
    LET kept == SelectSeq(ms, LAMBDA m : Own(m, "rawAttributes") /\ Len(m.rawAttributes) > 0)
        rev == Reverse(kept)
    IN  [k \in 1..Len(rev) |->
            [table |-> rev[k].tableName,
             text |-> "await queryInterface.dropTable('" \o rev[k].tableName \o "');"]]

\* Lines 337-343: one dropTable per key of models, reversed.
DropTables(ms) ==
    LET rev == Reverse(ms)
    IN  [k \in 1..Len(rev) |->
            [table |-> rev[k].tableName,
             text |-> "await queryInterface.dropTable('" \o rev[k].tableName \o "');"]]

\* Lines 345-359: one DROP TYPE IF EXISTS per distinct enum name of a fresh scan.
DropEnums(ms) ==
    LET found == ScanModels(ms, FALSE).found
        names == Distinct([k \in 1..Len(found) |-> found[k].name])
    IN  [k \in 1..Len(names) |->
            [name |-> names[k],
             sql |-> "DROP TYPE IF EXISTS \"" \o names[k] \o "\";"]]

\* Lines 328-362: the script.
Script(enums, tables, ms) ==
    [up |-> [enums |-> enums, tables |-> tables],
     down |-> [tables |-> DropTables(ms), enums |-> DropEnums(ms)]]

----------------------------------------------------------------------------
(* Inputs: what loadModels can return *)

\* An attribute as Model.init leaves it in rawAttributes.
Column(type) ==
    [type |-> type, fieldName |-> Str("col"), field |-> Str("col"), Model |-> Obj,
     _modelAttribute |-> Bool(TRUE)]

INTEGER == DataType("INTEGER", FALSE, 0, 0, 0)
ENUM == DataType("ENUM", TRUE, 0, 0, 0)

IntColumn == Column(INTEGER)
EnumXY == Set(Column(ENUM), "values", Arr(<<"x", "y">>))
EnumYX == Set(Column(ENUM), "values", Arr(<<"y", "x">>))
VirtualColumn == Column(DataType("VIRTUAL", FALSE, 0, 0, 0))
NoTypeColumn == [allowNull |-> Bool(FALSE)]
LiteralEnum == [type |-> StringType("ENUM"), values |-> Arr(<<"x", "y">>)]

\* The attributes of the multi-model runs.
Attributes == {IntColumn, EnumXY, VirtualColumn, NoTypeColumn, LiteralEnum}
SymbolDefault == Set(Column(INTEGER), "defaultValue", Sym("x"))

\* An object whose only property is named null: not null, and without a type.
NullKeyed == [null |-> Bool(TRUE)]
SecondAttributes == {EnumYX, SymbolDefault}

\* The attributes of the single-model runs: every kind the normalizer
\* distinguishes, DataTypes instances with the text postgres and mysql give
\* them, and primitive strings.
TypedColumns ==
    {Column(t) : t \in
        {DataType("VARCHAR(100)", FALSE, 100, 0, 0),
         DataType("DECIMAL", FALSE, 0, 0, 0),
         DataType("DECIMAL(12,4)", FALSE, 0, 12, 4),
         DataType("TIMESTAMP WITH TIME ZONE", FALSE, 0, 0, 0),
         DataType("DATETIME", FALSE, 0, 0, 0),
         DataType("DOUBLE PRECISION", FALSE, 0, 0, 0),
         DataType("BOOLEAN", FALSE, 0, 0, 0),
         StringType("STRING"), StringType("DECIMAL"), StringType("DATE"),
         StringType("FLOAT"), StringType("SEQUELIZE.GEOMETRY"), StringType(""),
         StringType("constructor")}}

WithRelation ==
    {[type |-> INTEGER, references |-> Obj, onDelete |-> Str("CASCADE"),
      onUpdate |-> Str("CASCADE")],
     [type |-> INTEGER, onDelete |-> Str("CASCADE")],
     [type |-> INTEGER, onUpdate |-> Str("CASCADE"), allowNull |-> Bool(FALSE)],
     [type |-> INTEGER, references |-> Str(""), onDelete |-> Str("CASCADE"),
      onUpdate |-> Str("CASCADE")],
     [type |-> INTEGER, references |-> Bool(FALSE), onDelete |-> Str("CASCADE")],
     [type |-> INTEGER, references |-> Null, allowNull |-> Str("yes")],
     [type |-> INTEGER, references |-> Num(0), onUpdate |-> Str("CASCADE")],
     [type |-> INTEGER, references |-> BigInt(0), onDelete |-> Str("CASCADE")],
     [type |-> INTEGER, references |-> ObjText("null"), onDelete |-> Str("CASCADE")],
     [type |-> INTEGER, references |-> Sym("x")],
     [type |-> INTEGER, primaryKey |-> Bool(TRUE), autoIncrement |-> Bool(TRUE),
      allowNull |-> Bool(FALSE), defaultValue |-> Num(0)]}

\* Own properties that hold undefined, a type that is undefined or null, an
\* enum whose values are no array.
WithUndefined ==
    {[type |-> INTEGER, defaultValue |-> Undefined],
     [type |-> INTEGER, allowNull |-> Undefined, comment |-> Undefined],
     [type |-> StringType("STRING"), unique |-> Undefined, allowNull |-> Bool(FALSE)],
     [type |-> INTEGER, references |-> Undefined, onDelete |-> Undefined],
     [type |-> Undefined, allowNull |-> Bool(FALSE)],
     [type |-> Null],
     Set(Column(ENUM), "values", Undefined),
     Set(Column(ENUM), "values", Str("xy"))}

AllAttributes ==
    Attributes \cup SecondAttributes \cup TypedColumns \cup WithRelation
    \cup WithUndefined \cup {JSNull, NullKeyed}

TableNames == {"a", "a_b"}
FirstKey == "c"
SecondKey == "b_c"

Entry(key, value) == [key |-> key, value |-> value]

\* Object.entries of a rawAttributes map of at most two fields.
RawAttributeMaps(firsts, seconds) ==
    {<<>>}
    \cup {<<Entry(FirstKey, a)>> : a \in firsts}
    \cup {<<Entry(FirstKey, a), Entry(SecondKey, b)>> : a \in firsts, b \in seconds}

\* Model names are distinct and not integer-like, so the key order of the
\* models object is the load order.
ModelName(k) == "Model" \o ToString(k)

\* The k-th loaded model; rawAttributes is undefined for the unreadable kind.
ModelsAt(k, firsts, seconds) ==
    {[name |-> ModelName(k), tableName |-> t, rawAttributes |-> r] :
        t \in TableNames, r \in RawAttributeMaps(firsts, seconds)}
    \cup {[name |-> ModelName(k), tableName |-> t] : t \in TableNames}

\* Object.entries(models) for exactly n loaded models.
RECURSIVE ModelsOfLen(_, _, _)
ModelsOfLen(n, firsts, seconds) ==
    IF n = 0 THEN {<<>>}
    ELSE {Append(ms, m) : ms \in ModelsOfLen(n - 1, firsts, seconds),
                          m \in ModelsAt(n, firsts, seconds)}

ModelSets(max, firsts, seconds) ==
    UNION {ModelsOfLen(n, firsts, seconds) : n \in 0..max}

----------------------------------------------------------------------------
(* generateMigration and the exit chain *)

Start(ms) ==
    /\ models = ms
    /\ pc = "generateEnumTypes"
    /\ i = 1
    /\ enumCreationStatements = <<>>
    /\ attributes = <<>>
    /\ migrationStatements = <<>>
    /\ hasErrors = FALSE
    /\ console = <<>>
    /\ output = <<>>
    /\ file = <<>>
    /\ exitCode = -1

Init == \E ms \in ModelSets(MaxModels, Attributes, SecondAttributes) : Start(ms)

\* Line 235. A TypeError of generateEnumTypes is caught nowhere in
\* generateMigration: the promise rejects.
GenerateEnumTypes ==
    /\ pc = "generateEnumTypes"
    /\ IF generateEnumTypesThrows(models)
       THEN /\ pc' = "rejected"
            /\ UNCHANGED enumCreationStatements
       ELSE /\ enumCreationStatements' = generateEnumTypes(models)
            /\ pc' = "createTables"
    /\ UNCHANGED <<models, i, attributes, migrationStatements, hasErrors, console,
                   output, file, exitCode>>

\* One iteration of the loop of lines 246-322.
CreateTable ==
    /\ pc = "createTables"
    /\ i <= Len(models)
    /\ LET model == models[i]
       IN  IF ~Own(model, "rawAttributes")
           THEN \* Object.entries(undefined) throws inside generateTableAttributes:
                \* caught at line 317
                /\ console' = Append(console,
                      Line("error", "Model '" \o model.name \o "' has no rawAttributes"))
                /\ hasErrors' = TRUE
                /\ UNCHANGED <<attributes, migrationStatements>>
           ELSE LET got == generateTableAttributes(model.rawAttributes, model.tableName)
                    failed == FirstUnprintable(got.result)
                IN  IF NoAttributes(got.result)
                    THEN /\ attributes' = got.result
                         /\ console' = console \o got.log \o
                               <<Line("error", "No valid attributes found for model '"
                                                \o model.name \o "'")>>
                         /\ hasErrors' = TRUE
                         /\ UNCHANGED migrationStatements
                    ELSE IF failed # 0
                    THEN \* the template throws inside the try: caught at line 317
                         /\ attributes' = AfterDeletes(got.result, failed)
                         /\ console' = console \o got.log \o
                               <<Line("error", "Model '" \o model.name
                                                \o "' has no rawAttributes")>>
                         /\ hasErrors' = TRUE
                         /\ UNCHANGED migrationStatements
                    ELSE /\ attributes' = AfterDeletes(got.result, Len(got.result))
                         /\ console' = console \o got.log
                         /\ migrationStatements' = Append(migrationStatements,
                               CreateTableStatement(model.tableName, got.result))
                         /\ UNCHANGED hasErrors
    /\ i' = i + 1
    /\ UNCHANGED <<models, pc, enumCreationStatements, output, file, exitCode>>

AggregateWarning ==
    "\nWarning: Some errors occurred during migration generation. Please review the console output and the generated migration file carefully."

\* Lines 324-326, reached when the loop is over.
Warn ==
    /\ pc = "createTables"
    /\ i > Len(models)
    /\ console' = IF hasErrors THEN Append(console, Line("warn", AggregateWarning))
                  ELSE console
    /\ pc' = "write"
    /\ UNCHANGED <<models, i, enumCreationStatements, attributes, migrationStatements,
                   hasErrors, output, file, exitCode>>

\* Lines 328-366: the template is evaluated, then written and reported. The
\* scan of the down direction raises the TypeErrors of generateEnumTypes.
\* The file-system calls (mkdirSync, writeFileSync) are taken to succeed.
Write ==
    /\ pc = "write"
    /\ IF ScanModels(models, FALSE).threw
       THEN /\ pc' = "rejected"
            /\ UNCHANGED <<output, file, console>>
       ELSE /\ output' = <<Script(enumCreationStatements, migrationStatements, models)>>
            /\ file' = output'
            /\ console' = Append(console, Line("log", "FRESH MIGRATION CREATED AT"))
            /\ pc' = "fulfilled"
    /\ UNCHANGED <<models, i, enumCreationStatements, attributes, migrationStatements,
                   hasErrors, exitCode>>

\* Lines 371-374: the completion is logged and sequelize.close() is called. A
\* close() that throws is caught by the catch of line 384; otherwise its promise
\* is pending.
OnFulfilled ==
    /\ pc = "fulfilled"
    /\ console' = Append(console, Line("log", "MIGRATION GENERATION COMPLETE."))
    /\ pc' \in {"closing", "rejected"}
    /\ UNCHANGED <<models, i, enumCreationStatements, attributes, migrationStatements,
                   hasErrors, output, file, exitCode>>

\* Lines 375-378: the promise of close() is fulfilled.
CloseResolved ==
    /\ pc = "closing"
    /\ console' = Append(console, Line("log", "SEQUELIZE CONNECTION CLOSED."))
    /\ exitCode' = 0
    /\ pc' = "exited"
    /\ UNCHANGED <<models, i, enumCreationStatements, attributes, migrationStatements,
                   hasErrors, output, file>>

\* Lines 379-382: the promise of close() is rejected.
CloseRejected ==
    /\ pc = "closing"
    /\ console' = Append(console, Line("error", "ERROR CLOSING SEQUELIZE CONNECTION:"))
    /\ exitCode' = 1
    /\ pc' = "exited"
    /\ UNCHANGED <<models, i, enumCreationStatements, attributes, migrationStatements,
                   hasErrors, output, file>>

\* The promise of close() never settles and nothing else is pending: the
\* process ends with status 0, process.exit is not called, nothing is logged.
CloseNeverSettles ==
    /\ pc = "closing"
    /\ exitCode' = 0
    /\ pc' = "exited"
    /\ UNCHANGED <<models, i, enumCreationStatements, attributes, migrationStatements,
                   hasErrors, console, output, file>>

\* Lines 384-387.
OnRejected ==
    /\ pc = "rejected"
    /\ console' = Append(console, Line("error", "ERROR GENERATING MIGRATION:"))
    /\ exitCode' = 1
    /\ pc' = "exited"
    /\ UNCHANGED <<models, i, enumCreationStatements, attributes, migrationStatements,
                   hasErrors, output, file>>

Next ==
    \/ GenerateEnumTypes
    \/ CreateTable
    \/ Warn
    \/ Write
    \/ OnFulfilled
    \/ CloseResolved
    \/ CloseRejected
    \/ CloseNeverSettles
    \/ OnRejected

Spec == Init /\ [][Next]_vars

\* The runs over one model with any two attributes.
InitSingle ==
    \E ms \in ModelSets(1, AllAttributes, AllAttributes) : Len(ms) = 1 /\ Start(ms)

SpecSingle == InitSingle /\ [][Next]_vars

----------------------------------------------------------------------------
(* Vocabulary of the properties *)

Readable(model) == Own(model, "rawAttributes")

\* The normalized attribute map of a readable model.
Normalized(model) == generateTableAttributes(model.rawAttributes, model.tableName).result

\* The model takes part in the up direction: it has at least one usable attribute.
Usable(model) == Readable(model) /\ Len(Normalized(model)) > 0

\* The template of the model's create-table statement can be evaluated.
Renderable(model) == FirstUnprintable(Normalized(model)) = 0

\* How many models the create-table loop has gone through.
Processed == i - 1

TablesOf(statements) == [k \in 1..Len(statements) |-> statements[k].table]
NamesOf(statements) == [k \in 1..Len(statements) |-> statements[k].name]
Range(seq) == {seq[k] : k \in 1..Len(seq)}

Generated == Len(output) = 1
UpList == output[1].up.enums \o output[1].up.tables
DownList == output[1].down.tables \o output[1].down.enums

Logged(level, text) == \E k \in 1..Len(console) : console[k] = Line(level, text)
LoggedPrefix(prefix) == \E k \in 1..Len(console) : StartsWith(console[k].text, prefix)
PositionsOf(text) == {k \in 1..Len(console) : console[k].text = text}

\* generateMigration was fulfilled; the connection failed to close afterwards.
GenerationCompleted == Logged("log", "MIGRATION GENERATION COMPLETE.")
CloseFailed == GenerationCompleted /\ exitCode = 1

\* The model whose attributes the variable attributes was computed from.
LastNormalized == models[i - 1]
JustNormalized ==
    /\ pc = "createTables"
    /\ i > 1
    /\ Readable(LastNormalized)

ResolvedOf(key) ==
    {attributes[k].value.type.str : k \in {j \in 1..Len(attributes) : attributes[j].key = key}}

----------------------------------------------------------------------------
(* C1 *)

\* C1: the tables the down direction drops are exactly the tables the up
\* direction creates, in the opposite order, also when a model was skipped.
C1_DownDropsReverseOfUpCreates ==
    Generated =>
        TablesOf(output[1].down.tables) = Reverse(TablesOf(output[1].up.tables))

----------------------------------------------------------------------------
(* C2 *)

\* C2: a model whose rawAttributes is undefined is reported, contributes no
\* statement, and the run still writes the script of the other models and
\* exits with success, unless the connection fails to close.
C2_UnreadableModelDoesNotAbort ==
    (pc = "exited" /\ ~CloseFailed /\ \E k \in 1..Len(models) : ~Readable(models[k])) =>
        /\ exitCode = 0
        /\ Len(file) = 1
        /\ \A k \in 1..Len(models) :
              ~Readable(models[k]) =>
                  Logged("error", "Model '" \o models[k].name \o "' has no rawAttributes")
        /\ Len(migrationStatements) =
              Cardinality({k \in 1..Len(models) : Usable(models[k])})

----------------------------------------------------------------------------
(* C3 *)

\* C3: an attribute that is present but has an undefined type is warned about,
\* resolves to 'STRING' and is part of the map generateTableAttributes returns.
C3_UndefinedTypeFallsBackToString ==
    JustNormalized =>
        \A k \in 1..Len(LastNormalized.rawAttributes) :
            LET e == LastNormalized.rawAttributes[k]
            IN  (~IsNull(e.value) /\ ~Has(e.value, "type")) =>
                    /\ ResolvedOf(e.key) = {"STRING"}
                    /\ Logged("warn", "Warning: Type for attribute '" \o e.key
                              \o "' in table '" \o LastNormalized.tableName
                              \o "' is undefined")

----------------------------------------------------------------------------
(* C4 *)

\* The kind of a descriptor: the entry of typeMapping its base name has.
KindOf(type) ==
    LET base == SplitHead(type.str)
    IN  IF type.isENUM THEN "ENUM"
        ELSE IF base \in DOMAIN typeMapping THEN typeMapping[base] ELSE "other"

\* What the finishing rules of the claim give.
Finished(type, tableName, key) ==
    CASE KindOf(type) = "STRING" /\ type._length # 0 ->
            "STRING(" \o ToString(type._length) \o ")"
      [] KindOf(type) = "DECIMAL" /\ type._precision = 0 /\ type._scale = 0 ->
            "DECIMAL(10,0)"
      [] KindOf(type) = "DATE" -> "TIMESTAMP WITH TIME ZONE"
      [] KindOf(type) = "ENUM" -> "\"enum_" \o tableName \o "_" \o key \o "\""
      [] OTHER -> ""

\* C4: a STRING type of length L resolves to 'STRING(L)', a DECIMAL type without
\* precision and scale to 'DECIMAL(10,0)', a DATE or DATETIME type to
\* 'TIMESTAMP WITH TIME ZONE', an ENUM type to "enum_<tableName>_<fieldName>".
C4_FinishingRulesPerKind ==
    JustNormalized =>
        \A k \in 1..Len(LastNormalized.rawAttributes) :
            LET e == LastNormalized.rawAttributes[k]
            IN  (/\ ~IsNull(e.value)
                 /\ TypeGiven(e.value)
                 /\ Finished(e.value.type, LastNormalized.tableName, e.key) # "") =>
                    ResolvedOf(e.key) =
                        {Finished(e.value.type, LastNormalized.tableName, e.key)}

----------------------------------------------------------------------------
(* C5 *)

PerModelErrorLogged ==
    \/ LoggedPrefix("No valid attributes found for model")
    \/ \E k \in 1..Len(models) :
          Logged("error", "Model '" \o models[k].name \o "' has no rawAttributes")

PerFieldErrorLogged ==
    \/ LoggedPrefix("Error processing attribute")
    \/ LoggedPrefix("WARNING: UNHANDLED SEQUELIZE TYPE")

\* C5: a run with a per-model or a per-field error prints the aggregate warning
\* exactly once, after the file was written, and completes.
C5_OneAggregateWarningAfterWrite ==
    (pc = "exited" /\ exitCode = 0 /\ (PerModelErrorLogged \/ PerFieldErrorLogged)) =>
        /\ Len(file) = 1
        /\ Cardinality(PositionsOf(AggregateWarning)) = 1
        /\ \A w \in PositionsOf(AggregateWarning) :
              \A f \in PositionsOf("FRESH MIGRATION CREATED AT") : f < w

----------------------------------------------------------------------------
(* C6 *)

\* The enum names the up direction refers to: those of its create statements
\* and those its columns have as type ('enum_<table>_<field>').
EnumColumnNames ==
    {SubSeq(c.type, 2, Len(c.type) - 1) :
        c \in {col \in UNION {Range(t.columns) : t \in Range(output[1].up.tables)} :
                  StartsWith(col.type, "'enum_")}}

EnumNamesInUp == Range(NamesOf(output[1].up.enums)) \cup EnumColumnNames

\* C6: every enum name the up direction refers to has its DROP TYPE IF EXISTS
\* statement in the down direction.
C6_EveryEnumOfUpIsDropped ==
    Generated =>
        \A name \in EnumNamesInUp :
            \E k \in 1..Len(output[1].down.enums) :
                /\ output[1].down.enums[k].name = name
                /\ output[1].down.enums[k].sql = "DROP TYPE IF EXISTS \"" \o name \o "\";"

----------------------------------------------------------------------------
(* C7 *)

\* The tables of the usable models among the first n, in model order.
RECURSIVE UsableTables(_)
UsableTables(n) ==
    IF n = 0 THEN <<>>
    ELSE IF Usable(models[n]) THEN Append(UsableTables(n - 1), models[n].tableName)
    ELSE UsableTables(n - 1)

\* C7: of the models the create-table loop has gone through, one whose
\* normalized attribute map is empty has no create-table statement and sets
\* hasErrors, and the others have exactly one statement each, in model order.
C7_EmptyModelSkippedOthersCreated ==
    /\ TablesOf(migrationStatements) = UsableTables(Processed)
    /\ \A k \in 1..Processed :
          (Readable(models[k]) /\ Len(Normalized(models[k])) = 0) => hasErrors

----------------------------------------------------------------------------
(* C8 *)

RelationProps == {"references", "onDelete", "onUpdate"}

\* C8: no column of a create-table statement carries references, onDelete or
\* onUpdate, whichever of the three its attribute had.
C8_RelationMetadataStripped ==
    \A k \in 1..Len(migrationStatements) :
        \A c \in 1..Len(migrationStatements[k].columns) :
            (DOMAIN migrationStatements[k].columns[c].props) \cap RelationProps = {}

----------------------------------------------------------------------------
(* C9 *)

\* C9: with at least one model loaded, the up list and the down list of the
\* generated script are both non-empty.
C9_UpAndDownNonEmpty ==
    (Generated /\ Len(models) >= 1) => (Len(UpList) > 0 /\ Len(DownList) > 0)

\* C9 as amended, of the code as it is: with at least one model loaded the
\* down list is non-empty (it drops also the tables up never creates, C1),
\* and the up list is non-empty exactly when some model gets a create-table
\* statement (it has a usable attribute and its template can be evaluated,
\* the catch of line 317 skipping it otherwise, C7) or
\* has an enum-typed field; it is empty when every model is skipped and no
\* model declares an enum.
HasEnumField(model) ==
    \E k \in 1..Len(model.rawAttributes) : IsEnumAttribute(model.rawAttributes[k].value)

C9_DownNonEmptyUpWhenUsable ==
    (Generated /\ Len(models) >= 1) =>
        /\ Len(DownList) > 0
        /\ (Len(UpList) > 0) <=>
              (\E k \in 1..Len(models) :
                  (Usable(models[k]) /\ Renderable(models[k])) \/ HasEnumField(models[k]))

\* A generated script whose up list is empty while its down list drops the
\* table of the only, skipped, model.
C9_Witness ==
    /\ Generated
    /\ Len(models) = 1
    /\ ~Usable(models[1])
    /\ Len(UpList) = 0
    /\ Len(DownList) = 1

----------------------------------------------------------------------------
(* C10 *)

\* The enum-typed fields as <<model index, field index>>, and scan order.
EnumOccurrences ==
    UNION {{<<m, f>> : f \in {g \in 1..Len(models[m].rawAttributes) :
                                IsEnumAttribute(models[m].rawAttributes[g].value)}} :
           m \in 1..Len(models)}

ScannedBefore(p, q) == p[1] < q[1] \/ (p[1] = q[1] /\ p[2] < q[2])

DerivedName(p) ==
    "enum_" \o models[p[1]].tableName \o "_" \o models[p[1]].rawAttributes[p[2]].key

DeclaredValues(p) == models[p[1]].rawAttributes[p[2]].value.values.items

IsFirstOccurrence(p) ==
    \A q \in EnumOccurrences : DerivedName(q) = DerivedName(p) => ~ScannedBefore(q, p)

EnumsCollected == pc # "generateEnumTypes" /\ ~generateEnumTypesThrows(models)

\* C10: generateEnumTypes returns one create statement per distinct derived
\* name, ordered by first occurrence; the statement of a name carries the
\* values of the first field deriving it, quoted, in declared order.
C10_OneCreatePerDerivedName ==
    EnumsCollected =>
        /\ Len(enumCreationStatements) =
              Cardinality({DerivedName(p) : p \in EnumOccurrences})
        /\ \A p \in EnumOccurrences :
              IsFirstOccurrence(p) =>
                  \E k \in 1..Len(enumCreationStatements) :
                      /\ enumCreationStatements[k].name = DerivedName(p)
                      /\ enumCreationStatements[k].values = EnumValues(DeclaredValues(p))
        /\ \A j, k \in 1..Len(enumCreationStatements) :
              j < k =>
                  \E p, q \in EnumOccurrences :
                      /\ IsFirstOccurrence(p) /\ IsFirstOccurrence(q)
                      /\ DerivedName(p) = enumCreationStatements[j].name
                      /\ DerivedName(q) = enumCreationStatements[k].name
                      /\ ScannedBefore(p, q)

\* Two different (table, field) pairs derive enum_a_b_c with different values:
\* one statement, with the values of the first.
C10_Witness ==
    /\ EnumsCollected
    /\ \E p, q \in EnumOccurrences :
          /\ ScannedBefore(p, q)
          /\ DerivedName(p) = DerivedName(q)
          /\ models[p[1]].tableName # models[q[1]].tableName
          /\ DeclaredValues(p) = <<"x", "y">>
          /\ DeclaredValues(q) = <<"y", "x">>
    /\ Len(enumCreationStatements) = 1
    /\ enumCreationStatements[1].values = "'x', 'y'"

====
